---------------------------- MODULE Spec2Model ----------------------------
(***************************************************************************)
(* A model of the iterative DNS lookup client src/mydns.py: the message    *)
(* codec (build_dns_query, parse_name, parse_resource_records,             *)
(* parse_dns_response), the server selection (choose_next_server,          *)
(* extract_answer_ips) and the resolver loop (main).                       *)
(*                                                                         *)
(* Conventions.  A Python bytes object is a sequence of numbers 0..255; a  *)
(* Python offset o (0-based) reads the element o + 1 of the sequence.  A   *)
(* Python value whose type matters is tagged: <<"str", chars>>,            *)
(* <<"bytes", bytes>>, <<"None">>.  An exception raised by a function is   *)
(* the outcome "raise"; a loop that never ends is the outcome "hang".      *)
(***************************************************************************)
EXTENDS Integers, Sequences, FiniteSets, TLC

VARIABLES
    pc,               \* position of the code under study
    message,          \* parse_name / parse_resource_records: the buffer
    offset,           \* parse_name / parse_resource_records: the cursor
    labels,           \* parse_name: the labels decoded so far
    original_offset,  \* parse_name: the resume offset
    jumped,           \* parse_name: whether a pointer was followed
    result,           \* the value returned by the function under study
    start_offset,     \* the offset argument of the call under study
    iterations,       \* parse_name: parity of the loop iterations executed
    domain_name,      \* build_dns_query / main: the name to resolve
    count,            \* parse_resource_records: the count argument
    records,          \* parse_resource_records: the records list
    marks,            \* parse_resource_records: per record laid out in the
                      \* buffer, where its fixed header ends and the
                      \* rdlength it declares (set with the buffer)
    current_server_ip,\* main: the server queried next
    query,            \* main: the datagram of the last sendto and its target
    nsent,            \* main: how many queries were sent (history)
    response_data,    \* main: the bytes recvfrom returned in this iteration
    parsed,           \* main: the parsed reply of this iteration
    answer_ips,       \* main: extract_answer_ips' list
    next_server_ip,   \* main: choose_next_server's result
    outcome,          \* main: how the run ended
    socket_open       \* main: whether udp_socket is open

vars == <<pc, message, offset, labels, original_offset, jumped, result,
          start_offset, iterations, domain_name, count, records, marks,
          current_server_ip, query, nsent, response_data, parsed,
          answer_ips, next_server_ip, outcome, socket_open>>

nameVars == <<message, offset, labels, original_offset, jumped, result,
              start_offset, iterations>>
rrVars   == <<count, records, marks>>
mainVars == <<current_server_ip, query, nsent, response_data, parsed,
              answer_ips, next_server_ip, outcome, socket_open>>

-----------------------------------------------------------------------------
(* Python values *)

None     == <<"None">>
Str(s)   == <<"str", s>>
Bytes(b) == <<"bytes", b>>
IsStr(v) == v[1] = "str"

\* The local variable parsed of main before its assignment in a pass.
Unbound == [bound |-> FALSE]

Min(a, b) == IF a < b THEN a ELSE b

\* message[a:b] of Python for 0 <= a: a slice never raises, it is cut to the
\* buffer.
Slice(m, a, b) == SubSeq(m, a + 1, Min(b, Len(m)))

\* ">H" and ">I" of struct.unpack on bytes that are there.
U16(m, o) == m[o + 1] * 256 + m[o + 2]
U32(m, o) == ((m[o + 1] * 256 + m[o + 2]) * 256 + m[o + 3]) * 256 + m[o + 4]

\* ">H" of struct.pack for 0 <= v < 65536.
Pack16(v) == <<v \div 256, v % 256>>
Pack32(v) == <<v \div 16777216, (v \div 65536) % 256, (v \div 256) % 256, v % 256>>

Dot == 46

\* sep.join(parts) for a one-character separator.
RECURSIVE Join(_, _)
Join(parts, sep) ==
    IF parts = <<>> THEN <<>>
    ELSE IF Len(parts) = 1 THEN parts[1]
    ELSE parts[1] \o <<sep>> \o Join(Tail(parts), sep)

\* str(b) for an int 0 <= b <= 255: its decimal digits.
Digit(d) == 48 + d
DecStr(b) ==
    IF b < 10 THEN <<Digit(b)>>
    ELSE IF b < 100 THEN <<Digit(b \div 10), Digit(b % 10)>>
    ELSE <<Digit(b \div 100), Digit((b \div 10) % 10), Digit(b % 10)>>

\* bytes.decode("ascii") / str.encode("ascii") raise on a value above 127.
IsAscii(s) == \A i \in 1..Len(s) : s[i] < 128

-----------------------------------------------------------------------------
(* parse_name *)

\* Lines 54-59 with the resume offset recorded at every pointer.
NamePointerEveryJump(m, st) ==
    [st EXCEPT !.offset = (m[st.offset + 1] % 64) * 256 + m[st.offset + 2],
               !.original_offset = st.offset + 2,
               !.jumped = TRUE]

\* Lines 54-59: follow the pointer at st.offset; the first one fixes the
\* resume offset.
NamePointer(m, st) ==
    [st EXCEPT !.offset = (m[st.offset + 1] % 64) * 256 + m[st.offset + 2],
               !.original_offset = IF st.jumped THEN @ ELSE st.offset + 2,
               !.jumped = TRUE]

\* Lines 64-67: the label of the given bytes.  decode("ascii") raises on a
\* byte above 127.  A call that returns reads each offset at most once, so it
\* collects fewer than Len(m) labels: the list is cut at that length, which
\* only a call that never returns can reach (its list grows without bound).
NameLabel(m, st, length, label) ==
    IF ~IsAscii(label) THEN [st EXCEPT !.pc = "raise"]
    ELSE [st EXCEPT !.offset = st.offset + 1 + length,
                    !.labels = IF Len(@) < Len(m) THEN Append(@, label) ELSE @]

\* Lines 53-67: the three branches on the length byte.
NameBranch(m, st, length) ==
    IF (length \div 64) % 4 = 3
    THEN IF st.offset + 1 >= Len(m) THEN [st EXCEPT !.pc = "raise"]
         ELSE NamePointer(m, st)
    ELSE IF length = 0
    THEN [st EXCEPT !.offset = st.offset + 1, !.pc = "break"]
    ELSE NameLabel(m, st, length,
                   Slice(m, st.offset + 1, st.offset + 1 + length))

\* Lines 51-67: one pass through the body of "while True" on the locals st.
\* message[offset] raises at or past the end of the buffer.
NameIter(m, st) ==
    IF st.offset >= Len(m) THEN [st EXCEPT !.pc = "raise"]
    ELSE NameBranch(m, st, m[st.offset + 1])

\* Lines 46-48: the locals of parse_name at its loop's first test.
NameEntry(o) ==
    [pc |-> "loop", offset |-> o, labels |-> <<>>, original_offset |-> o,
     jumped |-> FALSE]

\* Lines 69-74: the returned pair (decoded_name, resume offset).
NameReturn(st) ==
    [kind |-> "ok", name |-> Str(Join(st.labels, Dot)),
     offset |-> IF st.jumped THEN st.original_offset ELSE st.offset]

RECURSIVE NameRun(_, _, _)
NameRun(m, st, fuel) ==
    IF st.pc # "loop" \/ fuel = 0 THEN st
    ELSE NameRun(m, NameIter(m, st), fuel - 1)

\* How a call whose loop stopped in st ends.
NameOutcome(st) ==
    IF st.pc = "break" THEN NameReturn(st)
    ELSE IF st.pc = "raise" THEN [kind |-> "raise"]
    ELSE [kind |-> "hang"]

\* parse_name(message, offset) as a whole: [kind |-> "ok", name, offset],
\* [kind |-> "raise"] or [kind |-> "hang"].  The loop's control depends on the
\* buffer and the offset alone, so a call that is still looping after
\* Len(m) + 1 passes has read some offset twice and never ends.
ParseName(m, o) == NameOutcome(NameRun(m, NameEntry(o), Len(m) + 1))

-----------------------------------------------------------------------------
(* Bounds and inputs *)

\* The longest buffer handed to parse_name on its own.
MaxNameLen == 5

\* The bytes those buffers are made of: a terminator, label lengths and
\* pointer targets, a letter, and a pointer's first byte (0xC0).
NameBytes == {0, 1, 2, 3, 97, 192}

NameMessages == UNION {[1..n -> NameBytes] : n \in 0..MaxNameLen}

\* The variables a specification does not use keep these values.
IdleName ==
    /\ message = <<>> /\ offset = 0 /\ labels = <<>> /\ original_offset = 0
    /\ jumped = FALSE /\ start_offset = 0 /\ iterations = 0
IdleRR == count = 0 /\ records = <<>> /\ marks = <<>>
IdleMain ==
    /\ current_server_ip = None /\ query = None /\ nsent = 0
    /\ response_data = None /\ parsed = Unbound /\ answer_ips = <<>> /\ next_server_ip = None
    /\ outcome = "NONE" /\ socket_open = FALSE

-----------------------------------------------------------------------------
(* parse_name, pass by pass *)

NameLocals ==
    [pc |-> pc, offset |-> offset, labels |-> labels,
     original_offset |-> original_offset, jumped |-> jumped]

\* A call parse_name(message, start_offset) on any buffer and any offset up to
\* the buffer's end.
InitName ==
    /\ message \in NameMessages
    /\ start_offset \in 0..Len(message)
    /\ pc = "loop"
    /\ offset = start_offset
    /\ labels = <<>>
    /\ original_offset = start_offset
    /\ jumped = FALSE
    /\ iterations = 0
    /\ result = None
    /\ domain_name = <<>>
    /\ IdleRR /\ IdleMain

SetNameLocals(st) ==
    /\ pc' = IF st.pc = "raise" THEN "raised" ELSE st.pc
    /\ offset' = st.offset
    /\ labels' = st.labels
    /\ original_offset' = st.original_offset
    /\ jumped' = st.jumped

\* Lines 50-67: one pass of the loop.
ParseNameLoop ==
    /\ pc = "loop"
    /\ SetNameLocals(NameIter(message, NameLocals))
    /\ iterations' = 1 - iterations
    /\ UNCHANGED <<message, result, start_offset, domain_name>>
    /\ UNCHANGED rrVars /\ UNCHANGED mainVars

\* Lines 69-74: the join and the return.
ParseNameReturn ==
    /\ pc = "break"
    /\ pc' = "returned"
    /\ result' = NameReturn(NameLocals)
    /\ UNCHANGED <<message, offset, labels, original_offset, jumped,
                   start_offset, iterations, domain_name>>
    /\ UNCHANGED rrVars /\ UNCHANGED mainVars

NextName == ParseNameLoop \/ ParseNameReturn

\* The interpreter keeps running the one thread there is.
SpecName == InitName /\ [][NextName]_vars /\ WF_vars(NextName)

-----------------------------------------------------------------------------
(* Claims about parse_name *)

\* Where the field of a name that starts at p ends, reading forward only: past
\* the plain labels, then past the two bytes of a pointer or past the zero
\* byte.  -1 when the buffer ends first.
RECURSIVE FieldEnd(_, _)
FieldEnd(m, p) ==
    IF p >= Len(m) THEN -1
    ELSE IF m[p + 1] >= 192 THEN p + 2
    ELSE IF m[p + 1] = 0 THEN p + 1
    ELSE FieldEnd(m, p + 1 + m[p + 1])

\* C8: parse_name returns as resume offset the position just after the field
\* the name occupies where it starts: after the two bytes of the first pointer
\* met (with or without plain labels before it), or after the terminating zero
\* byte when there is no pointer; pointers followed later do not change it.
C8_ResumeOffset ==
    pc = "returned" => result.offset = FieldEnd(message, start_offset)

\* A call that returned after following a pointer whose target is itself a
\* pointer.
C8_Witness ==
    /\ pc = "returned"
    /\ jumped
    /\ LET p == FieldEnd(message, start_offset) - 2
           t == (message[p + 1] % 64) * 256 + message[p + 2]
       IN message[t + 1] >= 192

\* C10: parse_name ends on every buffer and start offset: it returns a name or
\* raises.
C10_Terminates == <>(pc \in {"returned", "raised"})

-----------------------------------------------------------------------------
(* build_dns_query *)

\* str.split(sep): the pieces between the separators, empty pieces kept.
RECURSIVE Split(_, _)
Split(s, sep) ==
    IF \A i \in 1..Len(s) : s[i] # sep THEN <<s>>
    ELSE LET k == CHOOSE i \in 1..Len(s) :
                    s[i] = sep /\ \A j \in 1..(i - 1) : s[j] # sep
         IN <<SubSeq(s, 1, k - 1)>> \o Split(SubSeq(s, k + 1, Len(s)), sep)

\* Lines 30-31 with the length byte left out.
LabelBytesNoLength(label) ==
    IF Len(label) > 255 \/ ~IsAscii(label) THEN [kind |-> "raise"]
    ELSE [kind |-> "ok", bytes |-> label]

\* Lines 29-31: the length byte and the characters of one label.
\* struct.pack("B", length) raises for a length above 255, encode("ascii")
\* for a character above 127.
LabelBytes(label) ==
    IF Len(label) > 255 \/ ~IsAscii(label) THEN [kind |-> "raise"]
    ELSE [kind |-> "ok", bytes |-> <<Len(label)>> \o label]

\* a + b of two byte strings, either of which may have raised.
Concat(x, y) ==
    IF x.kind = "raise" \/ y.kind = "raise" THEN [kind |-> "raise"]
    ELSE [kind |-> "ok", bytes |-> x.bytes \o y.bytes]

\* Lines 28-33: the length-prefixed labels and the zero byte.
RECURSIVE Qname(_)
Qname(parts) ==
    IF parts = <<>> THEN [kind |-> "ok", bytes |-> <<0>>]
    ELSE Concat(LabelBytes(parts[1]), Qname(Tail(parts)))

\* Lines 17-23 and 35-42: the header, the question, the returned pair.
QueryOf(transaction_id, qname) ==
    IF qname.kind = "raise" THEN [kind |-> "raise"]
    ELSE [kind |-> "ok", transaction_id |-> transaction_id,
          query |-> Pack16(transaction_id) \o Pack16(256) \o Pack16(1)
                    \o Pack16(0) \o Pack16(0) \o Pack16(0)
                    \o qname.bytes \o Pack16(1) \o Pack16(1)]

\* build_dns_query(domain_name) with the random transaction_id drawn.
BuildDnsQuery(transaction_id, name) ==
    QueryOf(transaction_id, Qname(Split(name, Dot)))

\* Where the question starts: after the 12 header bytes.
HeaderLen == 12

\* Transaction ids random.getrandbits(16) may draw.
TxIds == {0, 65535}

\* The longest domain name made of single characters.
MaxDomainLen == 3

\* n times the byte b.
Rep(b, n) == [i \in 1..n |-> b]

\* Label lengths around the values the length byte treats differently.
LongLens == {63, 64, 191, 192, 255, 256}

Domains ==
    UNION {[1..n -> {97, 98, Dot}] : n \in 0..MaxDomainLen}
    \cup {Rep(97, n) : n \in LongLens}
    \cup {<<98, Dot>> \o Rep(97, n) \o <<Dot, 98>> : n \in LongLens}

\* encode a query for domain_name, then decode its question name.
InitQuery ==
    /\ domain_name \in Domains
    /\ pc = "build"
    /\ result = None
    /\ IdleName /\ IdleRR /\ IdleMain

StartDecoding(q) ==
    IF q.kind = "raise"
    THEN /\ pc' = "build_raised"
         /\ UNCHANGED <<message, offset, original_offset, start_offset>>
    ELSE /\ pc' = "loop"
         /\ message' = q.query
         /\ offset' = HeaderLen
         /\ original_offset' = HeaderLen
         /\ start_offset' = HeaderLen

\* Line 193, then the call parse_name(query, 12).
BuildQuery ==
    /\ pc = "build"
    /\ \E transaction_id \in TxIds :
         StartDecoding(BuildDnsQuery(transaction_id, domain_name))
    /\ UNCHANGED <<labels, jumped, result, iterations, domain_name>>
    /\ UNCHANGED rrVars /\ UNCHANGED mainVars

NextQuery == BuildQuery \/ ParseNameLoop \/ ParseNameReturn

SpecQuery == InitQuery /\ [][NextQuery]_vars /\ WF_vars(NextQuery)

\* Every label of the dotted name s has a length in lo..hi.
LabelLengthsIn(s, lo, hi) ==
    \A i \in 1..Len(Split(s, Dot)) :
        Len(Split(s, Dot)[i]) >= lo /\ Len(Split(s, Dot)[i]) <= hi

\* The question name decodes to the labels of domain_name, in order.
RoundTrips ==
    /\ pc \notin {"build_raised", "raised"}
    /\ pc = "returned" =>
         /\ labels = Split(domain_name, Dot)
         /\ result.name = Str(domain_name)

\* C9 as stated: for every domain name of labels of at most 255 bytes each,
\* decoding the question name of the built query gives back the labels.
C9_Original == LabelLengthsIn(domain_name, 1, 255) => RoundTrips

\* C9 as amended: for every domain name whose labels are each 1 to 191 bytes
\* long, decoding the question name of the built query (parse_name at offset
\* 12) gives back the label sequence, in order.
C9_RoundTrip == LabelLengthsIn(domain_name, 1, 191) => RoundTrips

\* A round trip of a name of several labels, one of them 191 bytes long.
C9_Witness ==
    /\ pc = "returned"
    /\ Len(labels) = 3
    /\ \E i \in 1..Len(labels) : Len(labels[i]) = 191
    /\ result.name = Str(domain_name)

-----------------------------------------------------------------------------
(* parse_resource_records *)

\* Lines 88-89: the dotted decimal string of the address bytes.
RECURSIVE DecParts(_)
DecParts(bs) == IF bs = <<>> THEN <<>> ELSE <<DecStr(bs[1])>> \o DecParts(Tail(bs))
IpString(bs) == Str(Join(DecParts(bs), Dot))

\* Lines 82-84: the fixed header after the owner name.  struct.unpack raises
\* when fewer than 10 bytes are left.
RRFixed(m, name) ==
    IF name.kind # "ok" THEN [kind |-> name.kind]
    ELSE IF name.offset + 10 > Len(m) THEN [kind |-> "raise"]
    ELSE [kind |-> "ok", name |-> name.name,
          type |-> U16(m, name.offset), class |-> U16(m, name.offset + 2),
          ttl |-> U32(m, name.offset + 4), rdlength |-> U16(m, name.offset + 8),
          rdata_start |-> name.offset + 10]

\* Lines 81-84: the owner name and the fixed header of the record at o.
RRHeader(m, o) == RRFixed(m, ParseName(m, o))

\* Line 91: the NS target and the offset its decoding stopped at.
RRNsData(ns) ==
    IF ns.kind # "ok" THEN [kind |-> ns.kind]
    ELSE [kind |-> "ok", rdata |-> ns.name, read_to |-> ns.offset]

\* Line 93: the raw bytes.
RRRawData(h, raw) ==
    [kind |-> "ok", rdata |-> Bytes(raw), read_to |-> h.rdata_start + Len(raw)]

\* Lines 86-93: the interpreted rdata and the offset its reading stopped at.
RRData(m, h) ==
    IF h.type = 1 /\ h.rdlength = 4
    THEN [kind |-> "ok",
          rdata |-> IpString(Slice(m, h.rdata_start, h.rdata_start + 4)),
          read_to |-> h.rdata_start + 4]
    ELSE IF h.type = 2 THEN RRNsData(ParseName(m, h.rdata_start))
    ELSE RRRawData(h, Slice(m, h.rdata_start, h.rdata_start + h.rdlength))

\* Line 95 with the cursor left where the reading of rdata stopped.
RRAdvanceByRead(h, d) == d.read_to

\* Line 95: the cursor after the record.
RRAdvance(h, d) == h.rdata_start + h.rdlength

\* Lines 95-105: the record and the cursor after it.
RRRecord(h, d) ==
    IF d.kind # "ok" THEN [kind |-> d.kind]
    ELSE [kind |-> "ok",
          record |-> [name |-> h.name, type |-> h.type, class |-> h.class,
                      ttl |-> h.ttl, rdlength |-> h.rdlength,
                      rdata |-> d.rdata],
          offset |-> RRAdvance(h, d)]

RRAfterHeader(m, h) ==
    IF h.kind # "ok" THEN [kind |-> h.kind] ELSE RRRecord(h, RRData(m, h))

\* Lines 81-105: one pass of the loop at cursor o.
RRIter(m, o) == RRAfterHeader(m, RRHeader(m, o))

\* records.append(record) in front of the records that follow.
RRCons(it, rest) ==
    IF rest.kind # "ok" THEN [kind |-> rest.kind]
    ELSE [kind |-> "ok", records |-> <<it.record>> \o rest.records,
          offset |-> rest.offset]

\* parse_resource_records(message, count, offset) as a whole.
RECURSIVE ParseResourceRecords(_, _, _)
RECURSIVE RRNext(_, _, _)
RRNext(m, n, it) ==
    IF it.kind # "ok" THEN [kind |-> it.kind]
    ELSE RRCons(it, ParseResourceRecords(m, n - 1, it.offset))

ParseResourceRecords(m, n, o) ==
    IF n = 0 THEN [kind |-> "ok", records |-> <<>>, offset |-> o]
    ELSE RRNext(m, n, RRIter(m, o))

-----------------------------------------------------------------------------
(* Synthetic buffers *)

\* A record as it is laid out: owner name bytes, the 10-byte fixed header
\* (class IN), rdlength = the rdata bytes that follow.
RR(owner, type, rdata) == [owner |-> owner, type |-> type, rdata |-> rdata]
EncodeRR(r) ==
    r.owner \o Pack16(r.type) \o Pack16(1) \o Pack32(300)
    \o Pack16(Len(r.rdata)) \o r.rdata

RECURSIVE EncodeRRs(_)
EncodeRRs(rs) == IF rs = <<>> THEN <<>> ELSE EncodeRR(rs[1]) \o EncodeRRs(Tail(rs))

\* The header and the question "q" (type A, class IN) of a reply.
ReplyHead(an, ns, ar) ==
    Pack16(4660) \o Pack16(33792) \o Pack16(1) \o Pack16(an) \o Pack16(ns)
    \o Pack16(ar) \o <<1, 113, 0>> \o Pack16(1) \o Pack16(1)

\* The offset after the question of ReplyHead.
BodyStart == HeaderLen + 7

PtrQ  == <<192, 12>>               \* a pointer to the question name "q"
NameN == <<1, 110, 0>>             \* "n"
NameM == <<1, 109, 1, 113, 0>>     \* "m.q" spelled out
NameMc == <<1, 109, 192, 12>>      \* "m.q" compressed
NameU == <<1, 117, 0>>             \* "u"

\* Records of every interpretation: an address, an A record whose rdlength is
\* not 4, NS targets spelled out, compressed, a bare pointer, and followed by
\* padding inside rdlength, and other types with empty and pointer-like rdata.
MixedRRs ==
    { RR(PtrQ, 1, <<10, 0, 0, 1>>), RR(NameN, 1, <<10, 1>>),
      RR(PtrQ, 2, NameN), RR(PtrQ, 2, NameMc), RR(NameU, 2, PtrQ),
      RR(PtrQ, 2, NameN \o <<7, 7>>),
      RR(NameM, 16, <<>>), RR(PtrQ, 5, <<192, 12, 0>>) }

\* How many records a synthetic buffer holds, and how many bytes may be cut
\* off its end.
MaxRecords == 2
MaxCut == 2

SeqsUpTo(S, n) == UNION {[1..k -> S] : k \in 0..n}

\* Where each record of rs, laid out from offset o, has the end of its fixed
\* header, and the rdlength it declares.
RECURSIVE Layout(_, _)
Layout(rs, o) ==
    IF rs = <<>> THEN <<>>
    ELSE <<[header_end |-> o + Len(rs[1].owner) + 10,
            rdlength |-> Len(rs[1].rdata)]>>
         \o Layout(Tail(rs), o + Len(EncodeRR(rs[1])))

-----------------------------------------------------------------------------
(* parse_resource_records, record by record *)

\* A call parse_resource_records(message, count, BodyStart) on a buffer of
\* mixed records, whole or cut short, for a count below, at or above the
\* number of records laid out.
InitRR ==
    /\ \E rs \in SeqsUpTo(MixedRRs, MaxRecords), cut \in 0..MaxCut :
         LET whole == ReplyHead(0, 0, Len(rs)) \o EncodeRRs(rs) IN
         /\ message = SubSeq(whole, 1, Len(whole) - cut)
         /\ marks = Layout(rs, BodyStart)
    /\ count \in 0..MaxRecords
    /\ start_offset = BodyStart
    /\ offset = BodyStart
    /\ records = <<>>
    /\ pc = "rr_loop"
    /\ result = None
    /\ labels = <<>> /\ original_offset = 0 /\ jumped = FALSE /\ iterations = 0
    /\ domain_name = <<>>
    /\ IdleMain

AppendRecord(it) ==
    IF it.kind = "ok"
    THEN /\ records' = Append(records, it.record)
         /\ offset' = it.offset
         /\ pc' = "rr_loop"
    ELSE /\ pc' = IF it.kind = "raise" THEN "raised" ELSE "hung"
         /\ UNCHANGED <<records, offset>>

\* Lines 80-105: one pass of the loop.
ParseRecord ==
    /\ pc = "rr_loop"
    /\ Len(records) < count
    /\ AppendRecord(RRIter(message, offset))
    /\ UNCHANGED <<message, labels, original_offset, jumped, result,
                   start_offset, iterations, domain_name, count, marks>>
    /\ UNCHANGED mainVars

\* Line 107: the return.
ParseRecordsReturn ==
    /\ pc = "rr_loop"
    /\ Len(records) = count
    /\ pc' = "returned"
    /\ result' = [records |-> records, offset |-> offset]
    /\ UNCHANGED <<message, offset, labels, original_offset, jumped,
                   start_offset, iterations, domain_name, count, records, marks>>
    /\ UNCHANGED mainVars

NextRR == ParseRecord \/ ParseRecordsReturn

SpecRR == InitRR /\ [][NextRR]_vars /\ WF_vars(NextRR)

\* C7: after each record the cursor is the end of that record's fixed header
\* plus the rdlength it declares, however its rdata was read; the returned
\* offset is that position for the last record, and the start offset when the
\* count is 0.
C7_OffsetIntegrity ==
    /\ pc \in {"rr_loop", "returned"} =>
         /\ Len(records) <= Len(marks)
         /\ offset = IF records = <<>> THEN start_offset
                     ELSE marks[Len(records)].header_end
                          + marks[Len(records)].rdlength
         /\ \A i \in 1..Len(records) : records[i].rdlength = marks[i].rdlength
    /\ pc = "returned" =>
         /\ Len(result.records) = count
         /\ result.offset = offset

\* Two records returned, an NS record whose compressed name is shorter than
\* its rdlength among them.
C7_Witness ==
    /\ pc = "returned"
    /\ Len(result.records) = 2
    /\ \E i \in 1..2 : /\ result.records[i].type = 2
                       /\ result.records[i].rdlength = 5
    /\ \E i \in 1..2 : result.records[i].type \notin {1, 2}

-----------------------------------------------------------------------------
(* parse_dns_response, extract_answer_ips, choose_next_server *)

\* Lines 121-123: skip n questions from offset o.
RECURSIVE SkipQuestions(_, _, _)
RECURSIVE SkipNext(_, _, _)
SkipNext(m, n, name) ==
    IF name.kind # "ok" THEN [kind |-> name.kind]
    ELSE SkipQuestions(m, n - 1, name.offset + 4)

SkipQuestions(m, n, o) ==
    IF n = 0 THEN [kind |-> "ok", offset |-> o]
    ELSE SkipNext(m, n, ParseName(m, o))

\* Lines 129-137: the parsed message.
ParsedOf(m, an, ns, ar) ==
    IF ar.kind # "ok" THEN [kind |-> ar.kind]
    ELSE [kind |-> "ok",
          parsed |-> [id |-> U16(m, 0), flags |-> U16(m, 2),
                      answers |-> an.records, authorities |-> ns.records,
                      additionals |-> ar.records]]

\* Line 127: the additional section.
AfterAuthorities(m, an, ns) ==
    IF ns.kind # "ok" THEN [kind |-> ns.kind]
    ELSE ParsedOf(m, an, ns, ParseResourceRecords(m, U16(m, 10), ns.offset))

\* Line 126: the authority section.
AfterAnswers(m, an) ==
    IF an.kind # "ok" THEN [kind |-> an.kind]
    ELSE AfterAuthorities(m, an, ParseResourceRecords(m, U16(m, 8), an.offset))

\* Line 125: the answer section.
AfterQuestions(m, qd) ==
    IF qd.kind # "ok" THEN [kind |-> qd.kind]
    ELSE AfterAnswers(m, ParseResourceRecords(m, U16(m, 6), qd.offset))

\* parse_dns_response(message).  struct.unpack raises on fewer than 12 bytes.
ParseDnsResponse(m) ==
    IF Len(m) < HeaderLen THEN [kind |-> "raise"]
    ELSE AfterQuestions(m, SkipQuestions(m, U16(m, 4), HeaderLen))

\* The records of rs of type t, in order.
RECURSIVE OfType(_, _)
OfType(rs, t) ==
    IF rs = <<>> THEN <<>>
    ELSE (IF rs[1].type = t THEN <<rs[1]>> ELSE <<>>) \o OfType(Tail(rs), t)

\* The rdata of the records rs, in order.
RECURSIVE Rdatas(_)
Rdatas(rs) == IF rs = <<>> THEN <<>> ELSE <<rs[1].rdata>> \o Rdatas(Tail(rs))

\* extract_answer_ips(parsed_response).
ExtractAnswerIps(p) == Rdatas(OfType(p.answers, 1))

\* Lines 160-162 for one ns: the rdata of the first record of as named ns.
RECURSIVE FirstNamed(_, _)
FirstNamed(as, ns) ==
    IF as = <<>> THEN None
    ELSE IF as[1].name = ns THEN as[1].rdata
    ELSE FirstNamed(Tail(as), ns)

\* Lines 159-162 with the loops exchanged: the first additional record that
\* carries any NS name.
RECURSIVE MatchAdditional(_, _)
MatchAdditional(ns_names, as) ==
    IF as = <<>> THEN None
    ELSE IF \E i \in 1..Len(ns_names) : ns_names[i] = as[1].name THEN as[1].rdata
    ELSE MatchAdditional(ns_names, Tail(as))

\* Lines 159-162: the loop over ns_names, the loop over additional_as inside.
RECURSIVE MatchNs(_, _)
RECURSIVE MatchNsNext(_, _, _)
MatchNsNext(ns_names, as, found) ==
    IF found # None THEN found ELSE MatchNs(Tail(ns_names), as)

MatchNs(ns_names, as) ==
    IF ns_names = <<>> THEN None
    ELSE MatchNsNext(ns_names, as, FirstNamed(as, ns_names[1]))

\* Lines 164-167 with the last A record taken.
FallbackLast(found, additional_as) ==
    IF found # None THEN found
    ELSE IF additional_as # <<>> THEN additional_as[Len(additional_as)].rdata
    ELSE None

\* Lines 164-167: the first A record when nothing matched, or None.
Fallback(found, additional_as) ==
    IF found # None THEN found
    ELSE IF additional_as # <<>> THEN additional_as[1].rdata
    ELSE None

\* Lines 159-167 falling back only when the reply names some server.
ChooseAmongNeedsNs(ns_names, additional_as) ==
    IF ns_names = <<>> THEN None
    ELSE Fallback(MatchNs(ns_names, additional_as), additional_as)

\* Lines 159-167 on the two lists.
ChooseAmong(ns_names, additional_as) ==
    Fallback(MatchNs(ns_names, additional_as), additional_as)

\* choose_next_server(parsed_response).
ChooseNextServer(p) ==
    ChooseAmong(Rdatas(OfType(p.authorities, 2)), OfType(p.additionals, 1))

-----------------------------------------------------------------------------
(* Replies a server may send *)

Reply(an, ns, ar) ==
    ReplyHead(Len(an), Len(ns), Len(ar)) \o EncodeRRs(an) \o EncodeRRs(ns)
    \o EncodeRRs(ar)

\* Answer records: addresses of "q", an alias, an A record of 2 bytes.
AnsA   == RR(PtrQ, 1, <<93, 184, 216, 34>>)
AnsA2  == RR(PtrQ, 1, <<9, 9, 9, 9>>)
AnsCn  == RR(PtrQ, 5, <<1, 99, 0>>)
AnsRaw == RR(PtrQ, 1, <<9, 9>>)

\* Authority records: the servers "n" and "m.q" (compressed), and an SOA.
NsN  == RR(PtrQ, 2, NameN)
NsM  == RR(PtrQ, 2, NameMc)
Soa  == RR(PtrQ, 6, <<0>>)

\* Additional records: addresses of "n", "m.q" and the unrelated "u", and
\* records of "n" that are no 4-byte address.
GlueN    == RR(NameN, 1, <<10, 0, 0, 1>>)
GlueM    == RR(NameM, 1, <<10, 0, 0, 2>>)
GlueU    == RR(NameU, 1, <<10, 0, 0, 3>>)
QuadN    == RR(NameN, 28, <<32, 1>>)
GlueNRaw == RR(NameN, 1, <<10, 1>>)

\* How many records the additional section of a referral holds.
MaxAdditional == 2

\* Replies without an answer: the authority section names no, one or both
\* servers in either order, with or without an SOA; the additional section is
\* any sequence of the additional records.
Referrals ==
    { Reply(<<>>, ns, ar) :
        ns \in { <<>>, <<NsN>>, <<NsM>>, <<Soa>>, <<NsN, NsM>>, <<NsM, NsN>>,
                 <<Soa, NsM>>, <<NsN, Soa>> },
        ar \in SeqsUpTo({GlueN, GlueM, GlueU, QuadN, GlueNRaw}, MaxAdditional) }

Answers ==
    { Reply(an, ns, ar) :
        an \in { <<AnsA>>, <<AnsCn>>, <<AnsCn, AnsA>>, <<AnsA, AnsA2>>,
                 <<AnsRaw>>, <<AnsA, AnsRaw, AnsA2>> },
        ns \in { <<>>, <<NsN, NsM>> },
        ar \in { <<>>, <<GlueM, GlueN>>, <<QuadN>> } }

\* Every prefix of a reply with one record in each section.
Truncated ==
    LET whole == Reply(<<AnsCn>>, <<NsM>>, <<GlueM>>) IN
    { SubSeq(whole, 1, k) : k \in 0..Len(whole) }

\* Replies whose names cannot be decoded: an owner that points at itself, two
\* pointers that point at each other, a pointer past the end, a label longer
\* than what is left, an NS target that points at itself, and a question count
\* above the questions present.
Malformed ==
    { ReplyHead(1, 0, 0) \o <<192, BodyStart>> \o Pack16(1) \o Pack16(1)
        \o Pack32(300) \o Pack16(4) \o <<1, 2, 3, 4>>,
      ReplyHead(1, 0, 0) \o <<192, BodyStart + 2, 192, BodyStart>>,
      ReplyHead(1, 0, 0) \o <<192, 200>> \o Pack16(1) \o Pack16(1)
        \o Pack32(300) \o Pack16(4) \o <<1, 2, 3, 4>>,
      ReplyHead(1, 0, 0) \o <<9, 97, 98>>,
      ReplyHead(0, 1, 0) \o PtrQ \o Pack16(2) \o Pack16(1)
        \o Pack32(300) \o Pack16(2) \o <<192, BodyStart + 12>>,
      Pack16(4660) \o Pack16(33792) \o Pack16(2) \o Pack16(0) \o Pack16(0)
        \o Pack16(0) \o <<1, 113, 0>> \o Pack16(1) \o Pack16(1) }

\* The size of the receive buffer.
RecvMax == 512

\* A reply longer than the receive buffer: an answer, then a TXT record of 600
\* bytes.
Oversized == { Reply(<<AnsA>>, <<>>, <<RR(PtrQ, 16, Rep(120, 600))>>) }

Datagrams == Referrals \cup Answers \cup Truncated \cup Malformed \cup Oversized

-----------------------------------------------------------------------------
(* main *)

\* The root server given on the command line: "198.41.0.4".
RootServer == IpString(<<198, 41, 0, 4>>)

\* The port queries are sent to.
DnsPort == 53

\* How many queries a run of the model sends.
MaxQueries == 2

\* The state after lines 183-187: the arguments read, the socket open.
Init ==
    /\ domain_name = <<113>>
    /\ current_server_ip = RootServer
    /\ socket_open = TRUE
    /\ pc = "querying"
    /\ query = None
    /\ nsent = 0
    /\ response_data = None
    /\ parsed = Unbound
    /\ answer_ips = <<>>
    /\ next_server_ip = None
    /\ outcome = "NONE"
    /\ result = None
    /\ IdleName /\ IdleRR

\* The hosts sendto takes as an IPv4 address: a str of four non-empty parts,
\* as lines 87-89 make of four bytes.  Any other host (fewer parts, when the
\* buffer ended inside the address; a bytes object, the rdata of an A record
\* that is not 4 bytes long) is resolved as the machine's resolver and
\* network decide: sendto raises or not.
IsDottedQuad(host) ==
    /\ IsStr(host)
    /\ Len(Split(host[2], Dot)) = 4
    /\ <<>> \notin {Split(host[2], Dot)[i] : i \in 1..4}

Sent(q, sendto_raises) ==
    IF q.kind = "raise" \/ sendto_raises
    THEN /\ pc' = "crashed"
         /\ outcome' = "UNCAUGHT"
         /\ UNCHANGED <<query, nsent>>
    ELSE /\ pc' = "awaiting"
         /\ query' = [data |-> q.query, to |-> <<current_server_ip, DnsPort>>]
         /\ nsent' = nsent + 1
         /\ UNCHANGED outcome

\* Lines 190-195: build the query and send it.  An exception of
\* build_dns_query or sendto is caught nowhere.  The locals of the pass before
\* are dead from here on and are forgotten.
SendQuery ==
    /\ pc = "querying"
    /\ nsent < MaxQueries
    /\ \E transaction_id \in TxIds, sendto_raises \in BOOLEAN :
         /\ sendto_raises => ~IsDottedQuad(current_server_ip)
         /\ Sent(BuildDnsQuery(transaction_id, domain_name), sendto_raises)
    /\ response_data' = None
    /\ parsed' = Unbound
    /\ answer_ips' = <<>>
    /\ next_server_ip' = None
    /\ UNCHANGED <<current_server_ip, socket_open, domain_name, result>>
    /\ UNCHANGED <<message, offset, labels, original_offset, jumped,
                   start_offset, iterations>>
    /\ UNCHANGED rrVars

\* Lines 199-201 retrying the same server after a timeout.
TimeoutRetry ==
    /\ pc = "awaiting"
    /\ pc' = "querying"
    /\ outcome' = "TIMED_OUT"
    /\ UNCHANGED <<current_server_ip, query, nsent, response_data, parsed,
                   answer_ips, next_server_ip, socket_open, domain_name,
                   result>>
    /\ UNCHANGED <<message, offset, labels, original_offset, jumped,
                   start_offset, iterations>>
    /\ UNCHANGED rrVars

\* Lines 198-201 and 229: recvfrom times out, the loop is left, the socket is
\* closed.
Timeout ==
    /\ pc = "awaiting"
    /\ pc' = "done"
    /\ outcome' = "TIMED_OUT"
    /\ socket_open' = FALSE
    /\ UNCHANGED <<current_server_ip, query, nsent, response_data, parsed,
                   answer_ips, next_server_ip, domain_name, result>>
    /\ UNCHANGED <<message, offset, labels, original_offset, jumped,
                   start_offset, iterations>>
    /\ UNCHANGED rrVars

\* Lines 221-227: no next server ends the run, a next server is queried.
Advance(next) ==
    IF next = None
    THEN [pc |-> "done", outcome |-> "NO_NEXT_SERVER",
          answer_ips |-> <<>>, next_server_ip |-> None]
    ELSE [pc |-> "querying", outcome |-> "NONE",
          answer_ips |-> <<>>, next_server_ip |-> next]

\* Lines 214-227 with the next server looked for before the answers.
AnsweredOrAdvanceReferralFirst(p, ips) ==
    IF ChooseNextServer(p) # None
    THEN [pc |-> "querying", outcome |-> "NONE", answer_ips |-> ips,
          next_server_ip |-> ChooseNextServer(p)]
    ELSE IF ips # <<>>
    THEN [pc |-> "done", outcome |-> "ANSWERED", answer_ips |-> ips,
          next_server_ip |-> None]
    ELSE Advance(None)

\* Lines 216-227: answers end the run, else the next server is chosen.
AnsweredOrAdvance(p, ips) ==
    IF ips # <<>>
    THEN [pc |-> "done", outcome |-> "ANSWERED", answer_ips |-> ips,
          next_server_ip |-> None]
    ELSE Advance(ChooseNextServer(p))

\* Lines 214-227: what main does with a parsed reply: where it goes on, and
\* its locals answer_ips and next_server_ip.
Decide(p) == AnsweredOrAdvance(p, ExtractAnswerIps(p))

\* The locals and the position of main after a reply decoded to p.
Decided(p, d) ==
    /\ parsed' = p
    /\ pc' = d.pc
    /\ outcome' = d.outcome
    /\ answer_ips' = d.answer_ips
    /\ next_server_ip' = d.next_server_ip
    /\ current_server_ip' = IF d.pc = "querying" THEN d.next_server_ip
                            ELSE current_server_ip
    /\ socket_open' = (d.pc = "querying")

\* Lines 203-229 on the outcome r of parse_dns_response(data).  An exception of
\* parse_dns_response is caught nowhere: the process dies with the socket
\* never closed by the program.
Handled(data, r) ==
    /\ response_data' = data
    /\ IF r.kind = "raise"
       THEN /\ pc' = "crashed"
            /\ outcome' = "UNCAUGHT"
            /\ UNCHANGED <<parsed, answer_ips, next_server_ip,
                           current_server_ip, socket_open>>
       ELSE IF r.kind = "hang"
       THEN /\ pc' = "hung"
            /\ UNCHANGED <<outcome, parsed, answer_ips, next_server_ip,
                           current_server_ip, socket_open>>
       ELSE Decided(r.parsed, Decide(r.parsed))

\* Line 203 on the bytes received.
Received(data) == Handled(data, ParseDnsResponse(data))

\* Lines 198 and 203-229: a datagram arrives, at most 512 bytes of it are
\* read, parsed outside the try block, and acted on; leaving the loop closes
\* the socket.
ReceiveReply ==
    /\ pc = "awaiting"
    /\ \E datagram \in Datagrams : Received(Slice(datagram, 0, RecvMax))
    /\ UNCHANGED <<query, nsent, domain_name, result>>
    /\ UNCHANGED <<message, offset, labels, original_offset, jumped,
                   start_offset, iterations>>
    /\ UNCHANGED rrVars

Next == SendQuery \/ Timeout \/ ReceiveReply

Spec == Init /\ [][Next]_vars /\ WF_vars(Next)

-----------------------------------------------------------------------------
(* Claims about main and the server selection *)

\* ips is the rdata of the records of rs of type t, in the order of rs.
IsRdataOfType(ips, rs, t) ==
    LET idx == {i \in 1..Len(rs) : rs[i].type = t} IN
    /\ Len(ips) = Cardinality(idx)
    /\ \A i \in idx : ips[Cardinality({j \in idx : j <= i})] = rs[i].rdata

\* C1: a decoded reply with at least one type-A answer record ends the run in
\* ANSWERED: the result is the rdata of every type-A answer record in section
\* order, no next server is selected and no further query is sent, whatever
\* the authority and additional sections hold.
C1_Answered ==
    [][ /\ (pc = "awaiting" /\ parsed' # Unbound
            /\ \E i \in 1..Len(parsed'.answers) : parsed'.answers[i].type = 1)
           => /\ pc' = "done"
              /\ outcome' = "ANSWERED"
              /\ IsRdataOfType(answer_ips', parsed'.answers, 1)
              /\ next_server_ip' = None
              /\ current_server_ip' = current_server_ip
              /\ nsent' = nsent
              /\ ~socket_open'
        /\ outcome = "ANSWERED"
           => (nsent' = nsent /\ current_server_ip' = current_server_ip)
      ]_vars

\* The second query of a run answered by a reply that holds several type-A
\* answers and also a referral with glue.
C1_Witness ==
    /\ outcome = "ANSWERED"
    /\ nsent = 2
    /\ Len(answer_ips) = 3
    /\ Len(parsed.authorities) = 2
    /\ ChooseNextServer(parsed) # None

\* C2: a reply whose decoding raises ends the run in the no-progress failure
\* outcome: the exception does not leave the run uncaught, the loop is left
\* and the socket is closed.
C2_DecodeFailureHandled ==
    (response_data # None /\ ParseDnsResponse(response_data).kind = "raise")
    => (pc = "done" /\ outcome \in {"TIMED_OUT", "NO_NEXT_SERVER"}
        /\ ~socket_open)

\* C3: a receive that times out ends the run at once: no further query is
\* sent, to the same server or another, and current_server_ip keeps its value.
C3_TimeoutStops ==
    [][ /\ (pc = "awaiting" /\ outcome' = "TIMED_OUT")
           => /\ pc' = "done"
              /\ ~socket_open'
              /\ nsent' = nsent
              /\ current_server_ip' = current_server_ip
        /\ outcome = "TIMED_OUT"
           => (nsent' = nsent /\ current_server_ip' = current_server_ip
               /\ pc' = pc)
      ]_vars

\* The query to a server a referral named timed out.
C3_Witness ==
    /\ outcome = "TIMED_OUT"
    /\ pc = "done"
    /\ nsent = 2
    /\ current_server_ip # RootServer

\* The pairs (i, j) of an authority NS record i and an additional A record j
\* whose owner name is the NS target.
Matches(p) ==
    {ij \in (1..Len(p.authorities)) \X (1..Len(p.additionals)) :
        /\ p.authorities[ij[1]].type = 2
        /\ p.additionals[ij[2]].type = 1
        /\ p.additionals[ij[2]].name = p.authorities[ij[1]].rdata}

\* main called choose_next_server on the reply of this iteration.
Chose == parsed # Unbound /\ answer_ips = <<>>

\* C4: when some additional A record is named like the target of some
\* authority NS record, choose_next_server returns the address of the first
\* match, scanning the NS records in authority order and, for each, the
\* additional A records in additional order.
C4_FirstMatch ==
    (Chose /\ Matches(parsed) # {}) =>
        \E ij \in Matches(parsed) :
            /\ \A kl \in Matches(parsed) :
                   ij[1] < kl[1] \/ (ij[1] = kl[1] /\ ij[2] <= kl[2])
            /\ next_server_ip = parsed.additionals[ij[2]].rdata

\* Both NS targets have glue, in the other order: the first NS record's
\* address, the second additional record, is chosen.
C4_Witness ==
    /\ Chose
    /\ Len(parsed.authorities) = 2 /\ Len(parsed.additionals) = 2
    /\ <<1, 2>> \in Matches(parsed) /\ <<2, 1>> \in Matches(parsed)
    /\ next_server_ip = parsed.additionals[2].rdata
    /\ next_server_ip # parsed.additionals[1].rdata

\* C5: when nothing matches but the additional section holds an A record,
\* choose_next_server returns the address of the first A record of the
\* additional section; records of other types before it are skipped.
C5_Fallback ==
    (Chose /\ Matches(parsed) = {}
     /\ \E j \in 1..Len(parsed.additionals) : parsed.additionals[j].type = 1)
    => \E j \in 1..Len(parsed.additionals) :
         /\ parsed.additionals[j].type = 1
         /\ \A l \in 1..(j - 1) : parsed.additionals[l].type # 1
         /\ next_server_ip = parsed.additionals[j].rdata

\* NS records without glue, and an unrelated A record behind a record of
\* another type.
C5_Witness ==
    /\ Chose
    /\ Matches(parsed) = {}
    /\ \E i \in 1..Len(parsed.authorities) : parsed.authorities[i].type = 2
    /\ Len(parsed.additionals) = 2
    /\ parsed.additionals[1].type # 1
    /\ parsed.additionals[2].type = 1
    /\ next_server_ip = parsed.additionals[2].rdata

\* C6: for a decoded reply without a type-A answer, choose_next_server returns
\* None exactly when the additional section holds no type-A record, whatever
\* the authority section holds; the run then ends in NO_PROGRESS with
\* current_server_ip unchanged and no further query sent.
C6_NoProgress ==
    Chose =>
      LET none == \A j \in 1..Len(parsed.additionals) :
                      parsed.additionals[j].type # 1
      IN /\ (next_server_ip = None) <=> none
         /\ none => /\ pc = "done"
                    /\ outcome = "NO_NEXT_SERVER"
                    /\ ~socket_open
                    /\ current_server_ip = query.to[1]

\* NS records and an additional section that holds a record, but no A record.
C6_Witness ==
    /\ Chose
    /\ outcome = "NO_NEXT_SERVER"
    /\ \E i \in 1..Len(parsed.authorities) : parsed.authorities[i].type = 2
    /\ parsed.additionals # <<>>

\* C11: every address the resolver takes from a type-A record is an IPv4
\* address string decoded from 4 bytes of rdata, never the raw bytes stored
\* for a type-A record whose rdlength is not 4: every element of the result
\* of an ANSWERED run, the server choose_next_server returned, and
\* current_server_ip.
C11_AddressesAreIPv4 ==
    /\ outcome = "ANSWERED" =>
         \A i \in 1..Len(answer_ips) : IsDottedQuad(answer_ips[i])
    /\ next_server_ip # None => IsDottedQuad(next_server_ip)
    /\ IsDottedQuad(current_server_ip)

=============================================================================
